---- MODULE Spec2Model ----
(***************************************************************************)
(* Model of the PD-Hunter enrichment pipeline:                             *)
(*   enrich_bounties.py  - AI-path merger (preserve or generate)           *)
(*   patch_enriched.py   - expert-table merger                             *)
(*   update_dashboard.py - dashboard syncer (regex splice into index.html) *)
(* Text is modelled as sequences of one-character strings.                 *)
(***************************************************************************)
EXTENDS Integers, Sequences, FiniteSets, TLC

VARIABLES
    \* --- mergers (enrich_bounties.py, patch_enriched.py) ---
    issues,           \* content of bounty_issues.json
    file,             \* content of enriched_bounties.json
    lastWriter,       \* who wrote `file` last: "init", "ai", "patch"
    patched,          \* the expert-table merger has written `file` at least once
    pc,               \* position of the AI-path run: idle, loop, done, aborted
    abortCause,       \* why the AI-path run stopped early
    i,                \* loop index of the AI-path run (1-based)
    existing_intel,   \* lookup built by load_existing_intelligence
    loadFailed,       \* load_existing_intelligence took its except branch
    enriched_issues,  \* output list under construction
    calls,            \* indices of the issues a remote request was made for (this run)
    replies,          \* what each remote request yielded (this run), by issue index
    fileAtStart,      \* content of enriched_bounties.json when the run started
    writes,           \* number of writes of the output file by the current AI run
    runs,             \* number of merger runs started
    \* --- bounty classifier alone ---
    labels,           \* argument of get_bounty_amount
    result,           \* its outcome
    \* --- dashboard syncer (update_dashboard.py) ---
    bounties,         \* content of enriched_bounties.json as read by the syncer
    html,             \* content of index.html
    htmlBefore,       \* content of index.html before the last sync
    embedded,         \* embedded_json of the last sync
    outcome,          \* outcome of the last sync: none, crash, warning, written
    syncs             \* number of syncs run

mergeVars == <<issues, file, lastWriter, patched, pc, abortCause, i, existing_intel,
               loadFailed, enriched_issues, calls, replies, fileAtStart, writes, runs>>
parseVars == <<labels, result>>
dashVars  == <<bounties, html, htmlBefore, embedded, outcome, syncs>>
vars      == <<mergeVars, parseVars, dashVars>>

(***************************************************************************)
(* Bounds                                                                  *)
(***************************************************************************)
MaxLabels   == 2   \* labels per label list (classifier alone)
MaxLabelLen == 3   \* characters per label (classifier alone)

(***************************************************************************)
(* Sequence helpers                                                        *)
(***************************************************************************)
Range(s) == {s[k] : k \in 1..Len(s)}

SeqsUpTo(S, n) == UNION {[1..k -> S] : k \in 0..n}

RECURSIVE Remove(_, _)
\* str.replace(c, "") for a one-character c
Remove(s, c) ==
    IF s = <<>> THEN <<>>
    ELSE IF Head(s) = c THEN Remove(Tail(s), c)
    ELSE <<Head(s)>> \o Remove(Tail(s), c)

LowerChar(c) == IF c = "K" THEN "k" ELSE IF c = "A" THEN "a" ELSE c

\* str.lower()
Lower(s) == [k \in 1..Len(s) |-> LowerChar(s[k])]

(***************************************************************************)
(* Bounty classifier: get_bounty_amount, get_bounty_tier                   *)
(***************************************************************************)
Digits == {"0", "1", "2", "3", "4", "5", "6", "7", "8", "9"}

DigitVal(c) ==
    CASE c = "0" -> 0 [] c = "1" -> 1 [] c = "2" -> 2 [] c = "3" -> 3 [] c = "4" -> 4
      [] c = "5" -> 5 [] c = "6" -> 6 [] c = "7" -> 7 [] c = "8" -> 8 [] c = "9" -> 9

RECURSIVE DecVal(_)
\* value of a sequence of digits ("" is 0)
DecVal(s) ==
    IF s = <<>> THEN 0 ELSE DecVal(SubSeq(s, 1, Len(s) - 1)) * 10 + DigitVal(s[Len(s)])

\* float(s) over the characters of the model (digits, ".", and characters float
\* rejects): s parses iff it is digits with at most one "." and at least one digit.
\* The value is kept as whole part and thousandths (truncated).
ParseFloat(s) ==
    LET dots  == {k \in 1..Len(s) : s[k] = "."}
        wellFormed == /\ \A k \in 1..Len(s) : s[k] \in Digits \cup {"."}
                      /\ Cardinality(dots) <= 1
                      /\ \E k \in 1..Len(s) : s[k] \in Digits
        d     == IF dots = {} THEN Len(s) + 1 ELSE CHOOSE k \in dots : TRUE
        whole == SubSeq(s, 1, d - 1)
        frac  == SubSeq(s, d + 1, Len(s))
        frac3 == SubSeq(frac \o <<"0", "0", "0">>, 1, 3)
    IN  IF wellFormed
        THEN [ok |-> TRUE, whole |-> DecVal(whole), milli |-> DecVal(frac3)]
        ELSE [ok |-> FALSE, whole |-> 0, milli |-> 0]

Returned(n) == [raised |-> FALSE, value |-> n]
Raised      == [raised |-> TRUE, value |-> 0]

RECURSIVE ScanLabels(_, _)
\* the for loop of get_bounty_amount, from label j on
ScanLabels(ls, j) ==
    IF j > Len(ls) THEN Returned(0)
    ELSE LET label == ls[j] IN
         IF label # <<>> /\ Head(label) = "$"
         THEN LET amount_str == Remove(Lower(Tail(label)), ",") IN
              IF "k" \in Range(amount_str)
              THEN \* outside the try: a ValueError propagates to the caller
                   LET f == ParseFloat(Remove(amount_str, "k")) IN
                   IF f.ok THEN Returned(f.whole * 1000 + f.milli) ELSE Raised
              ELSE LET f == ParseFloat(amount_str) IN
                   IF f.ok THEN Returned(f.whole) ELSE ScanLabels(ls, j + 1)
         ELSE ScanLabels(ls, j + 1)

get_bounty_amount(ls) == ScanLabels(ls, 1)

get_bounty_tier(amount) ==
    IF amount >= 500 THEN "S-Tier"
    ELSE IF amount >= 200 THEN "A-Tier"
    ELSE "B-Tier"

(***************************************************************************)
(* Data of the mergers                                                     *)
(***************************************************************************)
MaxIssues == 2   \* issues in bounty_issues.json
MaxRuns   == 2   \* merger runs in a behaviour

\* markers for what a JSON object holds under a key
MISSING == "<missing>"   \* the key is absent
NUMBER  == "<number>"    \* the value is a JSON number or null (not a string or list)

\* EXPERT_INTEL of patch_enriched.py; a hint is kept by its leading words
ExpertKeys == {819, 6398, 6674, 6403, 1367, 2240, 1434, 6592, 6532, 5838, 5567, 2063,
               924, 611, 859}

ExpertFriction(n) ==
    CASE n \in {819, 2240, 5838} -> "High"
      [] n \in {6398, 6674, 6532, 2063, 859} -> "Low"
      [] OTHER -> "Medium"

ExpertHint(n) ==
    CASE n = 819  -> "S-Tier Target."
      [] n = 6398 -> "REGRESSION detected."
      [] n = 6674 -> "Straightforward fix."
      [] n = 6403 -> "Strategic Enhancement."
      [] n = 1367 -> "CGO Elimination."
      [] n = 2240 -> "Protocol Conflict."
      [] n = 1434 -> "Rate-limiting bug."
      [] n = 6592 -> "Race condition in authenticated scanning."
      [] n = 6532 -> "CI Integration task."
      [] n = 5838 -> "Complex feature."
      [] n = 5567 -> "Config improvement."
      [] n = 2063 -> "PDF export feature."
      [] n = 924  -> "Wildcard detection."
      [] n = 611  -> "Headless mode timeout."
      [] n = 859  -> "Input parsing bug."

EXPERT_INTEL == [n \in ExpertKeys |->
                    [friction_level |-> ExpertFriction(n), technical_hint |-> ExpertHint(n)]]

\* labels used in the input file
L500 == <<"$", "5", "0", "0">>
L250 == <<"$", "2", "5", "0">>
Labc == <<"$", "a", "b", "c">>
Lk   == <<"$", "k">>
Lbug == <<"b", "u", "g">>

LabelLists == {<<L500>>, <<Labc, L250>>, <<Lbug>>, <<Lk, L500>>}

\* an issue of bounty_issues.json; the fields the mergers only copy through
\* (title, url, body, ...) are left out
IssuePool == [number : {819, 42}, labels : LabelLists]

InputFiles == {[kind |-> "invalid", items |-> <<>>]}
              \cup {[kind |-> "list", items |-> s] : s \in SeqsUpTo(IssuePool, MaxIssues)}

\* a hunter_intelligence value: kind is "dict", "null" (JSON null) or "missing" (no key)
Intel(k, fl, th, bt, ba) ==
    [kind |-> k, friction_level |-> fl, technical_hint |-> th,
     bounty_tier |-> bt, bounty_amount |-> ba]

EmptyDict == Intel("dict", MISSING, MISSING, MISSING, 0)

Item(hn, n, ls, hi) ==
    [has_number |-> hn, number |-> n, labels |-> ls, hunter_intelligence |-> hi]

ItemA == Item(TRUE, 819, <<L250>>, Intel("dict", "Low", "old hint", "B-Tier", 50))
ItemB == Item(TRUE, 42, <<L250>>, Intel("dict", "Extreme", "old hint", "S-Tier", 900))
ItemC == Item(TRUE, 42, <<L250>>, Intel("missing", MISSING, MISSING, MISSING, 0))
ItemD == Item(TRUE, 819, <<L250>>, Intel("null", MISSING, MISSING, MISSING, 0))
ItemE == Item(FALSE, 0, <<L250>>, Intel("dict", "High", "old hint", "A-Tier", 250))

\* contents of enriched_bounties.json before the first run
ExistingFiles ==
    {[kind |-> "absent", items |-> <<>>], [kind |-> "invalid", items |-> <<>>]}
    \cup {[kind |-> "list", items |-> s] :
            s \in {<<ItemA, ItemB>>, <<ItemB, ItemE, ItemA>>, <<ItemC>>, <<ItemD, ItemB>>}}

\* what a remote call yields
Reply(k, fl, th) == [kind |-> k, friction_level |-> fl, technical_hint |-> th]

Replies ==
    { Reply("error", MISSING, MISSING),        \* the request raised
      Reply("no_braces", MISSING, MISSING),    \* text with no {...} substring
      Reply("unparsable", MISSING, MISSING),   \* {...} that json.loads rejects
      Reply("object", "High", "ai hint"),
      Reply("object", "Extreme", "ai hint"),
      Reply("object", MISSING, MISSING),
      Reply("object", "Low", NUMBER) }

NoReply == Reply("none", MISSING, MISSING)

(***************************************************************************)
(* enrich_bounties.py                                                      *)
(***************************************************************************)
DefaultAnalysis ==
    [friction_level |-> "Medium",
     technical_hint |-> "Review the issue details and related code."]

\* analyze_issue_with_ai: the dict it returns for what the remote call yielded
analyze_issue_with_ai(reply) ==
    IF reply.kind = "object"
    THEN [friction_level |-> reply.friction_level, technical_hint |-> reply.technical_hint]
    ELSE DefaultAnalysis

\* dict.get(key, default) on a value that is MISSING when the key is absent
Get(v, default) == IF v = MISSING THEN default ELSE v

RECURSIVE LoadItems(_, _, _)
\* the for loop of load_existing_intelligence from item j on: the lookup is filled
\* in place, so an item that raises leaves the entries made before it
LoadItems(items, j, acc) ==
    IF j > Len(items) THEN [intel |-> acc, failed |-> FALSE]
    ELSE IF ~items[j].has_number THEN [intel |-> acc, failed |-> TRUE]
    ELSE LoadItems(items, j + 1,
                   (items[j].number :>
                        (IF items[j].hunter_intelligence.kind = "missing"
                         THEN EmptyDict ELSE items[j].hunter_intelligence)) @@ acc)

load_existing_intelligence(f) ==
    CASE f.kind = "absent"  -> [intel |-> <<>>, failed |-> FALSE]
      [] f.kind = "invalid" -> [intel |-> <<>>, failed |-> TRUE]
      [] OTHER              -> LoadItems(f.items, 1, <<>>)

\* a preserved record that also keeps the prior tier and amount
PreservedRecordKeepTier(issue, existing, bounty_tier, bounty_amount) ==
    Item(TRUE, issue.number, issue.labels,
         Intel("dict", Get(existing.friction_level, "Medium"),
               Get(existing.technical_hint, "Review the issue details."),
               Get(existing.bounty_tier, bounty_tier), existing.bounty_amount))

\* the record of a preserved issue (lines 150-158)
PreservedRecord(issue, existing, bounty_tier, bounty_amount) ==
    Item(TRUE, issue.number, issue.labels,
         Intel("dict", Get(existing.friction_level, "Medium"),
               Get(existing.technical_hint, "Review the issue details."),
               bounty_tier, bounty_amount))

\* the record of a new issue (lines 166-174)
NewRecord(issue, ai_analysis, bounty_tier, bounty_amount) ==
    Item(TRUE, issue.number, issue.labels,
         Intel("dict", Get(ai_analysis.friction_level, "Medium"),
               Get(ai_analysis.technical_hint, "Review the issue details."),
               bounty_tier, bounty_amount))

\* a lookup test that never finds the issue
IsPreservedNever(issue_num, intel) == FALSE

\* whether the issue takes the preserved branch (line 145)
IsPreserved(issue_num, intel) == issue_num \in DOMAIN intel

ResetRun ==
    /\ i' = 1
    /\ enriched_issues' = <<>>
    /\ calls' = <<>>
    /\ replies' = <<>>
    /\ writes' = 0
    /\ fileAtStart' = file

Abort(cause) ==
    /\ pc' = "aborted"
    /\ abortCause' = cause

\* main, lines 115-137: credential check, load of the input, load of the lookup
AiStart ==
    /\ pc \in {"idle", "done", "aborted"}
    /\ runs < MaxRuns
    /\ runs' = runs + 1
    /\ ResetRun
    /\ \E token \in BOOLEAN :
         IF ~token
         THEN Abort("no_token") /\ UNCHANGED <<existing_intel, loadFailed>>
         ELSE IF issues.kind # "list"
         THEN Abort("input") /\ UNCHANGED <<existing_intel, loadFailed>>
         ELSE LET loaded == load_existing_intelligence(file) IN
              /\ existing_intel' = loaded.intel
              /\ loadFailed' = loaded.failed
              /\ pc' = "loop"
              /\ abortCause' = "none"
    /\ UNCHANGED <<issues, file, lastWriter, patched, parseVars, dashVars>>

\* one iteration of the loop of main, lines 139-180
AiStep ==
    /\ pc = "loop"
    /\ i <= Len(issues.items)
    /\ LET issue == issues.items[i]
           amt   == get_bounty_amount(issue.labels)
           bounty_tier == get_bounty_tier(amt.value)
       IN  IF amt.raised
           THEN Abort("label") /\ UNCHANGED <<i, enriched_issues, calls, replies>>
           ELSE IF IsPreserved(issue.number, existing_intel)
           THEN LET existing == existing_intel[issue.number] IN
                IF existing.kind = "null"
                THEN \* None has no get
                     Abort("prior_null") /\ UNCHANGED <<i, enriched_issues, calls, replies>>
                ELSE /\ enriched_issues' =
                          Append(enriched_issues,
                                 PreservedRecord(issue, existing, bounty_tier, amt.value))
                     /\ replies' = Append(replies, NoReply)
                     /\ i' = i + 1
                     /\ UNCHANGED <<pc, abortCause, calls>>
           ELSE \E reply \in Replies :
                LET ai_analysis == analyze_issue_with_ai(reply) IN
                /\ calls' = Append(calls, i)
                /\ replies' = Append(replies, reply)
                /\ IF ai_analysis.technical_hint = NUMBER
                   THEN \* line 176 slices the hint
                        Abort("hint_type") /\ UNCHANGED <<i, enriched_issues>>
                   ELSE /\ enriched_issues' =
                             Append(enriched_issues,
                                    NewRecord(issue, ai_analysis, bounty_tier, amt.value))
                        /\ i' = i + 1
                        /\ UNCHANGED <<pc, abortCause>>
    /\ UNCHANGED <<issues, file, lastWriter, patched, existing_intel, loadFailed,
                   fileAtStart, writes, runs, parseVars, dashVars>>

\* the save moved into the loop body: the file is rewritten after each issue
AiSaveInLoop ==
    /\ pc = "loop"
    /\ i > 1
    /\ file' = [kind |-> "list", items |-> enriched_issues]
    /\ lastWriter' = "ai"
    /\ writes' = writes + 1
    /\ pc' = IF i > Len(issues.items) THEN "done" ELSE "loop"
    /\ UNCHANGED <<issues, patched, abortCause, i, existing_intel, loadFailed,
                   enriched_issues, calls, replies, fileAtStart, runs, parseVars, dashVars>>

\* main, lines 182-184: the output file is written after the loop
AiSave ==
    /\ pc = "loop"
    /\ i > Len(issues.items)
    /\ file' = [kind |-> "list", items |-> enriched_issues]
    /\ lastWriter' = "ai"
    /\ writes' = writes + 1
    /\ pc' = "done"
    /\ UNCHANGED <<issues, patched, abortCause, i, existing_intel, loadFailed,
                   enriched_issues, calls, replies, fileAtStart, runs, parseVars, dashVars>>

(***************************************************************************)
(* patch_enriched.py                                                       *)
(***************************************************************************)
DefaultIntel ==
    [friction_level |-> "Medium",
     technical_hint |->
        "Standard Bugfix: Review issue description for environment reproduction steps."]

\* a merger that ignores the expert table
PatchIntelDefault(num) == DefaultIntel

\* lines 102-108
PatchIntel(num) == IF num \in ExpertKeys THEN EXPERT_INTEL[num] ELSE DefaultIntel

\* lines 110-118
PatchRecord(issue) ==
    LET amount == get_bounty_amount(issue.labels).value
        intel  == PatchIntel(issue.number)
    IN  Item(TRUE, issue.number, issue.labels,
             Intel("dict", intel.friction_level, intel.technical_hint,
                   get_bounty_tier(amount), amount))

\* a whole run of main of patch_enriched.py; it raises, before opening the output
\* file, when the input does not load or a label makes get_bounty_amount raise
PatchRun ==
    /\ pc \in {"idle", "done", "aborted"}
    /\ runs < MaxRuns
    /\ runs' = runs + 1
    /\ pc' = "idle"
    /\ abortCause' = "none"
    /\ ResetRun
    /\ IF /\ issues.kind = "list"
          /\ \A k \in 1..Len(issues.items) : ~get_bounty_amount(issues.items[k].labels).raised
       THEN /\ file' = [kind |-> "list",
                        items |-> [k \in 1..Len(issues.items) |-> PatchRecord(issues.items[k])]]
            /\ lastWriter' = "patch"
            /\ patched' = TRUE
       ELSE UNCHANGED <<file, lastWriter, patched>>
    /\ UNCHANGED <<issues, existing_intel, loadFailed, parseVars, dashVars>>

(***************************************************************************)
(* Specification of the mergers                                            *)
(***************************************************************************)
ParseIdle == labels = <<>> /\ result = [raised |-> FALSE, value |-> 0, done |-> FALSE]
DashIdle  == /\ bounties = <<>> /\ html = <<>> /\ htmlBefore = <<>> /\ embedded = <<>>
             /\ outcome = "none" /\ syncs = 0

Init ==
    /\ issues \in InputFiles
    /\ file \in ExistingFiles
    /\ lastWriter = "init"
    /\ patched = FALSE
    /\ pc = "idle"
    /\ abortCause = "none"
    /\ i = 1
    /\ existing_intel = <<>>
    /\ loadFailed = FALSE
    /\ enriched_issues = <<>>
    /\ calls = <<>>
    /\ replies = <<>>
    /\ fileAtStart = file
    /\ writes = 0
    /\ runs = 0
    /\ ParseIdle
    /\ DashIdle

Next == AiStart \/ AiStep \/ AiSave \/ PatchRun

Spec == Init /\ [][Next]_vars

(***************************************************************************)
(* Properties of the mergers                                               *)
(***************************************************************************)
AiRun == pc \in {"loop", "done", "aborted"}

TierOf(amount) ==
    CASE amount >= 500 -> "S-Tier"
      [] amount >= 200 /\ amount < 500 -> "A-Tier"
      [] OTHER -> "B-Tier"

AmountAndTierFresh(rec, issue) ==
    /\ rec.hunter_intelligence.bounty_amount = get_bounty_amount(issue.labels).value
    /\ rec.hunter_intelligence.bounty_tier = TierOf(rec.hunter_intelligence.bounty_amount)

\* C1: every record written by either merger carries the amount parsed from the
\* issue's current labels and the tier of that amount, also when the record is a
\* preserved one whose prior block held another tier or amount.
C1_TierRecomputed ==
    /\ lastWriter \in {"ai", "patch"} =>
         /\ file.kind = "list"
         /\ Len(file.items) = Len(issues.items)
         /\ \A k \in 1..Len(file.items) : AmountAndTierFresh(file.items[k], issues.items[k])
    /\ AiRun =>
         \A k \in 1..Len(enriched_issues) :
            AmountAndTierFresh(enriched_issues[k], issues.items[k])

C1_Witness ==
    /\ lastWriter = "ai"
    /\ pc = "done"
    /\ \E k \in 1..Len(file.items) :
         LET n == issues.items[k].number IN
         /\ n \in DOMAIN existing_intel
         /\ existing_intel[n].bounty_tier \notin
                {MISSING, file.items[k].hunter_intelligence.bounty_tier}
         /\ existing_intel[n].bounty_amount # file.items[k].hunter_intelligence.bounty_amount

\* C2: in an AI-path run an issue whose number is in the lookup gets no remote
\* request and its record carries the prior friction_level and technical_hint
\* (or "Medium" / "Review the issue details." for a field the prior record lacks);
\* requests are made only for issues whose number is not in the lookup.
C2_PreservedNoCall ==
    AiRun =>
      /\ \A c \in Range(calls) : issues.items[c].number \notin DOMAIN existing_intel
      /\ \A k \in 1..Len(enriched_issues) :
           LET n  == issues.items[k].number
               hi == enriched_issues[k].hunter_intelligence
           IN  n \in DOMAIN existing_intel =>
                 /\ k \notin Range(calls)
                 /\ hi.friction_level =
                      (IF existing_intel[n].friction_level = MISSING THEN "Medium"
                       ELSE existing_intel[n].friction_level)
                 /\ hi.technical_hint =
                      (IF existing_intel[n].technical_hint = MISSING
                       THEN "Review the issue details."
                       ELSE existing_intel[n].technical_hint)

C2_Witness ==
    /\ pc = "done"
    /\ calls # <<>>
    /\ \E k \in 1..Len(enriched_issues) :
         /\ issues.items[k].number \in DOMAIN existing_intel
         /\ existing_intel[issues.items[k].number].friction_level = "Extreme"
         /\ enriched_issues[k].hunter_intelligence.friction_level = "Extreme"

FallbackReply(r) == r.kind \in {"error", "no_braces", "unparsable"}

\* C4: whatever the remote calls yield, a run with the credential processes every
\* issue and writes one record per input issue in input order; a failed or
\* unparsable reply gives "Medium" and the fixed default hint.
C4_RunSurvivesReplies ==
    /\ pc = "aborted" => abortCause # "hint_type"
    /\ pc = "done" =>
         /\ Len(file.items) = Len(issues.items)
         /\ \A k \in 1..Len(file.items) :
              /\ file.items[k].number = issues.items[k].number
              /\ FallbackReply(replies[k]) =>
                   /\ file.items[k].hunter_intelligence.friction_level = "Medium"
                   /\ file.items[k].hunter_intelligence.technical_hint =
                        "Review the issue details and related code."

\* C5: when loading the existing enriched file fails at any point, the run goes on
\* with an empty lookup: no issue is preserved, every issue is classified as new.
C5_FailedLoadIsEmpty ==
    (AiRun /\ abortCause \notin {"no_token", "input"} /\ loadFailed) =>
      /\ DOMAIN existing_intel = {}
      /\ \A k \in 1..Len(replies) : replies[k] # NoReply

ExpertRecordsCarryTable ==
    /\ file.kind = "list"
    /\ \A k \in 1..Len(file.items) :
         (file.items[k].has_number /\ file.items[k].number \in ExpertKeys) =>
           /\ file.items[k].hunter_intelligence.kind = "dict"
           /\ file.items[k].hunter_intelligence.friction_level =
                EXPERT_INTEL[file.items[k].number].friction_level
           /\ file.items[k].hunter_intelligence.technical_hint =
                EXPERT_INTEL[file.items[k].number].technical_hint

\* C6 as stated: after any sequence of runs of the two mergers, from any content of
\* the enriched file, every record whose number is a key of the expert table
\* carries the table's friction_level and technical_hint.
C6_Original == lastWriter # "init" => ExpertRecordsCarryTable

\* C6 as amended: once the expert-table merger has written the enriched file, then
\* after any further runs of either merger over the same input every record whose
\* number is a key of the expert table carries the table's values.
C6_AfterPatch == patched => ExpertRecordsCarryTable

C6_Witness ==
    /\ patched
    /\ lastWriter = "ai"
    /\ \E k \in 1..Len(file.items) : file.items[k].number \in ExpertKeys

\* C9: an AI-path run writes the output file at most once, and only after every
\* issue is processed; a run that stops earlier leaves the file as it was and
\* makes no further remote call.
C9_WriteOnceAtEnd ==
    /\ [](AiRun => writes <= 1)
    /\ []((pc = "aborted" \/ pc = "loop") => (writes = 0 /\ file = fileAtStart))
    /\ [][(pc = "loop" /\ (file' # file \/ writes' # writes)) =>
             /\ i > Len(issues.items)
             /\ Len(enriched_issues) = Len(issues.items)
             /\ file' = [kind |-> "list", items |-> enriched_issues]
             /\ pc' = "done"]_vars
    /\ [][Len(calls') > Len(calls) => (pc = "loop" /\ pc' # "done")]_vars

C9_Witness ==
    /\ pc = "aborted"
    /\ abortCause \in {"label", "hint_type", "prior_null"}
    /\ calls # <<>>
    /\ Len(enriched_issues) >= 1
    /\ fileAtStart.kind = "list"
    /\ fileAtStart.items # <<>>

\* C10: every record written by the AI-path merger has a friction_level among
\* "High", "Medium", "Low".
C10_FrictionEnumerated ==
    lastWriter = "ai" =>
      \A k \in 1..Len(file.items) :
         file.items[k].hunter_intelligence.friction_level \in {"High", "Medium", "Low"}

(***************************************************************************)
(* The bounty classifier alone                                             *)
(***************************************************************************)
LabelChars == {"$", "5", ".", "k", "K", ",", "a"}

MergeIdle ==
    /\ issues = [kind |-> "list", items |-> <<>>]
    /\ file = [kind |-> "absent", items |-> <<>>]
    /\ lastWriter = "init"
    /\ patched = FALSE
    /\ pc = "idle"
    /\ abortCause = "none"
    /\ i = 1
    /\ existing_intel = <<>>
    /\ loadFailed = FALSE
    /\ enriched_issues = <<>>
    /\ calls = <<>>
    /\ replies = <<>>
    /\ fileAtStart = file
    /\ writes = 0
    /\ runs = 0

InitParse ==
    /\ labels \in SeqsUpTo(SeqsUpTo(LabelChars, MaxLabelLen), MaxLabels)
    /\ result = [raised |-> FALSE, value |-> 0, done |-> FALSE]
    /\ MergeIdle
    /\ DashIdle

\* a call of get_bounty_amount(labels)
ParseCall ==
    /\ ~result.done
    /\ LET r == get_bounty_amount(labels) IN
       result' = [raised |-> r.raised, value |-> r.value, done |-> TRUE]
    /\ UNCHANGED <<labels, mergeVars, dashVars>>

NextParse == ParseCall

SpecParse == InitParse /\ [][NextParse]_vars

\* a "$" label whose remainder is a number, with or without a k suffix
Parses(label) ==
    /\ label # <<>>
    /\ Head(label) = "$"
    /\ ParseFloat(Remove(Remove(Lower(Tail(label)), ","), "k")).ok

\* C3: get_bounty_amount is total: a "$" label that does not parse is skipped
\* without an error, and the result is the amount of the first label that parses,
\* or 0 when none parses.
C3_ParseTotal ==
    result.done =>
      /\ ~result.raised
      /\ (\A k \in 1..Len(labels) : ~Parses(labels[k])) => result.value = 0
      /\ \A k \in 1..Len(labels) :
           (Parses(labels[k]) /\ \A j \in 1..(k - 1) : ~Parses(labels[j])) =>
             result.value = get_bounty_amount(<<labels[k]>>).value

(***************************************************************************)
(* update_dashboard.py                                                     *)
(* A text is a sequence of tokens. A token is one character, or a run of   *)
(* characters that no operation looks into (a JSON key with its quotes and *)
(* colon, a number, the literal `const EMBEDDED_DATA = `).                 *)
(***************************************************************************)
MaxStr     == 2   \* characters in a title
MaxRecords == 1   \* records in enriched_bounties.json
MaxParts   == 4   \* parts the old index.html is made of
MaxSyncs   == 2   \* syncs in a behaviour

QUOTE  == "\""
BS     == "\\"     \* one backslash
NL     == "<LF>"   \* the line feed character
US     == "<US>"   \* the control character U+001F
PREFIX == "const EMBEDDED_DATA = "

RECURSIVE Flatten(_)
Flatten(ss) == IF ss = <<>> THEN <<>> ELSE Head(ss) \o Flatten(Tail(ss))

RECURSIVE Join(_, _)
\* sep.join(ss)
Join(ss, sep) ==
    IF ss = <<>> THEN <<>>
    ELSE IF Len(ss) = 1 THEN ss[1]
    ELSE ss[1] \o sep \o Join(Tail(ss), sep)

\* json.dumps of one character of a string, ensure_ascii=False
EscapeChar(c) ==
    CASE c = QUOTE -> <<BS, QUOTE>>
      [] c = BS    -> <<BS, BS>>
      [] c = NL    -> <<BS, "n">>
      [] c = US    -> <<BS, "u", "0", "0", "1", "f">>
      [] OTHER     -> <<c>>

JsonStr(str) == <<QUOTE>> \o Flatten([k \in 1..Len(str) |-> EscapeChar(str[k])]) \o <<QUOTE>>

JsonInt(n) == <<ToString(n)>>

JsonList(elems) == <<"[">> \o Join(elems, <<", ">>) \o <<"]">>

JsonDict(members) == <<"{">> \o Join(members, <<", ">>) \o <<"}">>

Member(key, value) == <<QUOTE \o key \o QUOTE \o ": ">> \o value

JsonIntel(hi) ==
    JsonDict(<< Member("friction_level", JsonStr(hi.friction_level)),
                Member("technical_hint", JsonStr(hi.technical_hint)),
                Member("bounty_tier", JsonStr(hi.bounty_tier)),
                Member("bounty_amount", JsonInt(hi.bounty_amount)) >>)

\* lines 24-36: the projection of one record (body is dropped)
Compact(b) ==
    [number |-> b.number, title |-> b.title, url |-> b.url, state |-> b.state,
     labels |-> b.labels, comment_count |-> b.comment_count,
     repository |-> b.repository, created_at |-> b.created_at,
     updated_at |-> b.updated_at, author |-> b.author,
     hunter_intelligence |-> b.hunter_intelligence]

JsonCompact(c) ==
    JsonDict(<< Member("number", JsonInt(c.number)),
                Member("title", JsonStr(c.title)),
                Member("url", JsonStr(c.url)),
                Member("state", JsonStr(c.state)),
                Member("labels", JsonList([k \in 1..Len(c.labels) |-> JsonStr(c.labels[k])])),
                Member("comment_count", JsonInt(c.comment_count)),
                Member("repository", JsonStr(c.repository)),
                Member("created_at", JsonStr(c.created_at)),
                Member("updated_at", JsonStr(c.updated_at)),
                Member("author", JsonStr(c.author)),
                Member("hunter_intelligence", JsonIntel(c.hunter_intelligence)) >>)

\* line 39: json.dumps(compact_bounties, ensure_ascii=False)
embedded_json(bs) == JsonList([k \in 1..Len(bs) |-> JsonCompact(Compact(bs[k]))])

RECURSIVE ExpandTemplate(_)
\* re.sub reads its replacement as a template: a backslash escape is decoded
\* (\n is a line feed, \\ one backslash), a backslash before an ASCII letter that
\* is no escape (\u) is an error, a backslash before another character stays.
\* The text up to the first backslash is copied as it is.
ExpandTemplate(t) ==
    LET slashes == {k \in 1..Len(t) : t[k] = BS} IN
    IF slashes = {} THEN [ok |-> TRUE, text |-> t]
    ELSE LET b == CHOOSE k \in slashes : \A j \in slashes : k <= j
             before == SubSeq(t, 1, b - 1)
         IN  IF b = Len(t) THEN [ok |-> FALSE, text |-> <<>>]
             ELSE LET c == t[b + 1]
                      r == ExpandTemplate(SubSeq(t, b + 2, Len(t)))
                  IN  CASE c = "n" -> [ok |-> r.ok, text |-> before \o <<NL>> \o r.text]
                        [] c = BS  -> [ok |-> r.ok, text |-> before \o <<BS>> \o r.text]
                        [] c = "u" -> [ok |-> FALSE, text |-> <<>>]
                        [] OTHER   -> [ok |-> r.ok, text |-> before \o <<BS, c>> \o r.text]

\* positions q >= from where "];" stands
Closes(h, from) == {q \in from..(Len(h) - 1) : h[q] = "]" /\ h[q + 1] = ";"}

\* positions p >= pos where the pattern const EMBEDDED_DATA = \[.*?\]; matches
MatchStarts(h, pos) ==
    {p \in pos..(Len(h) - 1) : h[p] = PREFIX /\ h[p + 1] = "[" /\ Closes(h, p + 2) # {}}

Min(S) == CHOOSE x \in S : \A y \in S : x <= y

RECURSIVE SubFrom(_, _, _)
\* re.sub from position pos on: every non-overlapping match, leftmost first, each
\* to its nearest "];"
SubFrom(h, pos, repl) ==
    IF MatchStarts(h, pos) = {} THEN SubSeq(h, pos, Len(h))
    ELSE LET p == Min(MatchStarts(h, pos))
             q == Min(Closes(h, p + 2))
         IN  SubSeq(h, pos, p - 1) \o repl \o SubFrom(h, q + 2, repl)

\* line 49; the template is compiled before the document is searched
re_sub(replacement, h) ==
    LET t == ExpandTemplate(replacement) IN
    IF t.ok THEN [ok |-> TRUE, text |-> SubFrom(h, 1, t.text)]
    ELSE [ok |-> FALSE, text |-> h]

\* a whole run of main of update_dashboard.py
DashSync ==
    /\ syncs < MaxSyncs
    /\ syncs' = syncs + 1
    /\ htmlBefore' = html
    /\ LET ej          == embedded_json(bounties)
           replacement == <<PREFIX>> \o ej \o <<";">>
           new_html    == re_sub(replacement, html)
       IN  /\ embedded' = ej
           /\ IF ~new_html.ok
              THEN outcome' = "crash" /\ html' = html
              ELSE IF new_html.text = html
              THEN outcome' = "warning" /\ html' = html
              ELSE outcome' = "written" /\ html' = new_html.text
    /\ UNCHANGED <<bounties, mergeVars, parseVars>>

TitleChars == {"a", NL, BS, US, QUOTE, "]", ";"}

\* an enriched record with the given title
Bounty(title) ==
    [number |-> 819, title |-> title, url |-> <<"u">>, state |-> <<"o">>,
     labels |-> <<L500>>, comment_count |-> 3, repository |-> <<"r">>,
     created_at |-> <<"c">>, updated_at |-> <<"d">>, author |-> <<"h">>,
     body |-> <<"b">>,
     hunter_intelligence |->
        [friction_level |-> <<"H">>, technical_hint |-> <<"t">>,
         bounty_tier |-> <<"S">>, bounty_amount |-> 500]]

HtmlParts == {<<PREFIX, "[">>, <<"]", ";">>, <<"x">>, <<"]">>}

InitDash ==
    /\ bounties \in SeqsUpTo({Bounty(t) : t \in SeqsUpTo(TitleChars, MaxStr)}, MaxRecords)
    /\ html \in {Flatten(ps) : ps \in SeqsUpTo(HtmlParts, MaxParts)}
    /\ htmlBefore = html
    /\ embedded = <<>>
    /\ outcome = "none"
    /\ syncs = 0
    /\ MergeIdle
    /\ ParseIdle

NextDash == DashSync

SpecDash == InitDash /\ [][NextDash]_vars

\* a statement const EMBEDDED_DATA = [ ... ]; stands at p..q of h
Statement(h, p, q) ==
    /\ 1 <= p /\ p + 3 <= q /\ q <= Len(h)
    /\ h[p] = PREFIX /\ h[p + 1] = "["
    /\ h[q - 1] = "]" /\ h[q] = ";"

HasStatement(h) == \E p \in 1..Len(h), q \in 1..Len(h) : Statement(h, p, q)

\* the document holds the assignment to EMBEDDED_DATA exactly once
OneAssignment(h) == Cardinality({p \in 1..Len(h) : h[p] = PREFIX}) = 1

\* C7: after a successful sync of a document holding one EMBEDDED_DATA statement,
\* the document is the old one with the statement replaced by
\* `const EMBEDDED_DATA = `, the single-line serialization of the projected list
\* character for character, and `;`, all other text unchanged. Any span from the
\* prefix to a `];` counts as the statement.
C7_SpliceExact ==
    (outcome = "written" /\ OneAssignment(htmlBefore)) =>
      /\ embedded = embedded_json(bounties)
      /\ \E p \in 1..Len(htmlBefore), q \in 1..Len(htmlBefore) :
           /\ Statement(htmlBefore, p, q)
           /\ html = SubSeq(htmlBefore, 1, p - 1) \o <<PREFIX>> \o embedded \o <<";">>
                       \o SubSeq(htmlBefore, q + 1, Len(htmlBefore))

\* C8: when the document holds no text matching the statement, the syncer writes
\* nothing, the file stays as it was, and a warning is reported.
C8_NoPatternWarns ==
    (outcome # "none" /\ ~HasStatement(htmlBefore)) =>
      /\ html = htmlBefore
      /\ outcome = "warning"

====
